---- MODULE Spec2Model ----
(***************************************************************************)
(* A model of package httperr (src/httperr.go): the error registry         *)
(* (Map.Match), the resolver (Resolve) and the problem-detail formatter    *)
(* (Response.ProblemDetail).                                               *)
(*                                                                         *)
(* Strings that the code inspects character by character (the type URI    *)
(* and the base URI) are sequences of one-character strings; strings the   *)
(* code only copies or compares with "" (title, detail, instance) are      *)
(* plain strings.                                                          *)
(***************************************************************************)
EXTENDS Integers, Sequences, FiniteSets, TLC

VARIABLES
    registry,   \* the shared Map: sentinel identity -> Config
    phase,      \* "build" while the Map is being filled, "serve" afterwards
    call,       \* Spec: the current call of the single caller
    resp,       \* SpecPD: the Response that ProblemDetail is invoked on
    pd,         \* SpecPD: the last ProblemDetail call (arguments and result)
    procs       \* SpecConc: each concurrent caller's position and locals

vars == <<registry, phase, call, resp, pd, procs>>

----------------------------------------------------------------------------
(* Bounds *)

\* longest Unwrap chain of an error value
MaxDepth == 3
\* most entries put in the Map
MaxEntries == 2
\* longest generated tail of a type URI / longest generated base URI
MaxLen == 2

----------------------------------------------------------------------------
(* Strings as character sequences *)

HasPrefix(s, prefix) ==
    /\ Len(s) >= Len(prefix)
    /\ SubSeq(s, 1, Len(prefix)) = prefix

HasSuffix(s, suffix) ==
    /\ Len(s) >= Len(suffix)
    /\ SubSeq(s, Len(s) - Len(suffix) + 1, Len(s)) = suffix

\* every string over alphabet of length at most n
StringsUpTo(alphabet, n) == UNION {[1..k -> alphabet] : k \in 0..n}

Slash == <<"/">>
SchemeHTTP == <<"h","t","t","p",":","/","/">>
SchemeHTTPS == <<"h","t","t","p","s",":","/","/">>
SchemeAbout == <<"a","b","o","u","t",":">>
AboutBlank == <<"a","b","o","u","t",":","b","l","a","n","k">>
TypeNotFound == <<"r","e","s","o","u","r","c","e","/","n","o","t","-","f","o","u","n","d">>
TypeUnauthorized == <<"a","u","t","h","/","u","n","a","u","t","h","o","r","i","z","e","d">>

----------------------------------------------------------------------------
(* Config, New, defaultConfig *)

StatusInternalServerError == 500
StatusNotFound == 404
StatusUnauthorized == 401

\* a bug: a zero status is replaced by 500 instead of being stored
New_DefaultsStatus(typ, title, status) ==
    [Type |-> typ, Title |-> title,
     Status |-> IF status = 0 THEN 500 ELSE status]

New(typ, title, status) ==
    [Type |-> typ, Title |-> title, Status |-> status]

defaultConfig ==
    [Type |-> AboutBlank,
     Title |-> "Internal Server Error",
     Status |-> StatusInternalServerError]

----------------------------------------------------------------------------
(* Error values                                                            *)
(*                                                                         *)
(* An error value is modelled by its Unwrap chain, outermost error first;  *)
(* the nil error is the empty chain.  A node carries what errors.Is and    *)
(* errors.As look at: its identity (== on the error value) and whether it  *)
(* implements Localizable, with its messages.                              *)
(***************************************************************************)

\* package-level error values, each a distinct pointer
ErrNotFound == "ErrNotFound"
ErrUnauthorized == "ErrUnauthorized"
\* a distinct instance whose message is that of ErrNotFound
ErrMissing == "ErrMissing"
Named == {ErrNotFound, ErrUnauthorized, ErrMissing}

\* a wrapper built on the spot (fmt.Errorf("...: %w", err), newLocalizableError):
\* a fresh pointer, equal to no package-level value
Anon == "anon"

Text(id) ==
    CASE id = ErrNotFound -> "not found"
      [] id = ErrUnauthorized -> "unauthorized"
      [] id = ErrMissing -> "not found"
      [] OTHER -> "wrapped"

Tags == {"en", "ja", "fr"}
English == "en"

NoMessages == [en |-> "", none |-> ""]
MessagesNotFound == [en |-> "Resource not found", ja |-> "risoosu ga mitsukarimasen"]
MessagesLogin == [en |-> "Please log in"]

Plain(id) == [id |-> id, localizable |-> FALSE, messages |-> NoMessages]
LocalizableError(messages) == [id |-> Anon, localizable |-> TRUE, messages |-> messages]

Nodes ==
    {Plain(id) : id \in Named \cup {Anon}}
        \cup {LocalizableError(m) : m \in {MessagesNotFound, MessagesLogin}}

\* no package-level value occurs twice in a chain (a chain has no cycle)
WellFormed(err) ==
    \A i, j \in 1..Len(err) :
        (i # j /\ err[i].id = err[j].id) => err[i].id = Anon

ErrorsUpTo(n) ==
    {err \in UNION {[1..k -> Nodes] : k \in 0..n} : WellFormed(err)}

Errors == ErrorsUpTo(MaxDepth)

\* the package-level values in err's chain
ChainIds(err) == {err[i].id : i \in 1..Len(err)} \ {Anon}

\* localizableError.Localize
Localize(messages, tag) ==
    IF tag \in DOMAIN messages THEN messages[tag]
    ELSE IF English \in DOMAIN messages THEN messages[English]
    ELSE ""

\* a bug: == on the outermost error only, the chain is not followed
ErrorsIs_Direct(err, target) ==
    err # <<>> /\ Head(err).id = target

\* a bug: errors compared by their message text, not by identity
RECURSIVE ErrorsIs_ByText(_, _)
ErrorsIs_ByText(err, target) ==
    IF err = <<>> THEN FALSE
    ELSE IF Text(Head(err).id) = Text(target) THEN TRUE
    ELSE ErrorsIs_ByText(Tail(err), target)

\* errors.Is(err, target) for a non-nil target
RECURSIVE ErrorsIs(_, _)
ErrorsIs(err, target) ==
    IF err = <<>> THEN FALSE
    ELSE IF Head(err).id = target THEN TRUE
    ELSE ErrorsIs(Tail(err), target)

\* a bug: a type assertion on the outermost error only
ErrorsAs_TopOnly(err) ==
    IF err # <<>> /\ Head(err).localizable THEN 1 ELSE 0

\* errors.As(err, &loc): the position of the first Localizable in the chain, 0 if none
RECURSIVE ErrorsAs(_)
ErrorsAs(err) ==
    IF err = <<>> THEN 0
    ELSE IF Head(err).localizable THEN 1
    ELSE LET k == ErrorsAs(Tail(err)) IN IF k = 0 THEN 0 ELSE k + 1

----------------------------------------------------------------------------
(* Map.Match                                                               *)

\* the orders in which range may visit the keys of m
RECURSIVE Orders(_)
Orders(keys) ==
    IF keys = {} THEN {<<>>}
    ELSE UNION {{<<k>> \o o : o \in Orders(keys \ {k})} : k \in keys}

\* Match under the iteration order `order` of the map
RECURSIVE Match(_, _, _)
Match(m, err, order) ==
    IF order = <<>> THEN defaultConfig
    ELSE IF ErrorsIs(err, Head(order)) THEN m[Head(order)]
    ELSE Match(m, err, Tail(order))

----------------------------------------------------------------------------
(* Resolve                                                                 *)

\* a bug: the title is not copied from the matched Config
Resolve_DefaultTitle(err, m, tag, order) ==
    LET config == Match(m, err, order)
        k == ErrorsAs(err)
        detail == IF k # 0 THEN Localize(err[k].messages, tag) ELSE ""
    IN  [Type |-> config.Type,
         Title |-> defaultConfig.Title,
         Status |-> config.Status,
         Detail |-> detail]

Resolve(err, m, tag, order) ==
    LET config == Match(m, err, order)
        k == ErrorsAs(err)
        detail == IF k # 0 THEN Localize(err[k].messages, tag) ELSE ""
    IN  [Type |-> config.Type,
         Title |-> config.Title,
         Status |-> config.Status,
         Detail |-> detail]

----------------------------------------------------------------------------
(* Response.ProblemDetail                                                  *)

\* a bug: the about: scheme is not recognised
isAbsoluteURI_NoAbout(uri) ==
    \/ HasPrefix(uri, SchemeHTTP)
    \/ HasPrefix(uri, SchemeHTTPS)

isAbsoluteURI(uri) ==
    \/ HasPrefix(uri, SchemeHTTP)
    \/ HasPrefix(uri, SchemeHTTPS)
    \/ HasPrefix(uri, SchemeAbout)

\* a bug: the separator is added without looking at the end of base
resolveURI_AlwaysSlash(base, ref) ==
    base \o Slash \o ref

resolveURI(base, ref) ==
    LET b == IF ~HasSuffix(base, Slash) THEN base \o Slash ELSE base
    IN  b \o ref

\* baseURI is the variadic argument: a sequence of zero or more strings
TypeURI(r, baseURI) ==
    IF Len(baseURI) > 0 /\ baseURI[1] # <<>> /\ ~isAbsoluteURI(r.Type)
    THEN resolveURI(baseURI[1], r.Type)
    ELSE r.Type

\* a bug: detail is always emitted, as "" when there is none
ProblemDetail_AlwaysDetail(r, instance, baseURI) ==
    LET base == [type |-> TypeURI(r, baseURI), title |-> r.Title,
                 status |-> r.Status, detail |-> r.Detail]
    IN  IF instance # "" THEN [instance |-> instance] @@ base ELSE base

\* the map built from the resolved type and the fields of r
ProblemDetailMap(typeURI, r, instance) ==
    LET base == [type |-> typeURI, title |-> r.Title, status |-> r.Status]
        withDetail == IF r.Detail # "" THEN [detail |-> r.Detail] @@ base ELSE base
    IN  IF instance # "" THEN [instance |-> instance] @@ withDetail ELSE withDetail

ProblemDetail(r, instance, baseURI) ==
    ProblemDetailMap(TypeURI(r, baseURI), r, instance)

----------------------------------------------------------------------------
(* The registry and a single caller: Spec                                  *)

\* the (typ, title, status) triples handed to New while the Map is built;
\* New accepts any string and any int, the last triple is Go's zero values
ConfigArgs ==
    {<<TypeNotFound, "Not Found", StatusNotFound>>,
     <<TypeUnauthorized, "Unauthorized", StatusUnauthorized>>,
     <<<<>>, "", 0>>}

NoCall ==
    [pc |-> "idle", err |-> <<>>, tag |-> English,
     config |-> defaultConfig, detail |-> ""]

NoResponse == [Type |-> <<>>, Title |-> "", Status |-> 0, Detail |-> ""]
NoProblemDetail == [called |-> FALSE, instance |-> "", baseURI |-> <<>>, out |-> [type |-> <<>>]]

Init ==
    /\ registry = <<>>
    /\ phase = "build"
    /\ call = NoCall
    /\ resp = NoResponse
    /\ pd = NoProblemDetail
    /\ procs = <<>>

\* m[s] = New(typ, title, status) while the Map is built
Register(s, a) ==
    /\ phase = "build"
    /\ s \in DOMAIN registry \/ Cardinality(DOMAIN registry) < MaxEntries
    /\ registry' = [k \in DOMAIN registry \cup {s} |->
                        IF k = s THEN New(a[1], a[2], a[3]) ELSE registry[k]]
    /\ UNCHANGED <<phase, call, resp, pd, procs>>

\* the Map is complete; from here on it is only read
Serve ==
    /\ phase = "build"
    /\ phase' = "serve"
    /\ UNCHANGED <<registry, call, resp, pd, procs>>

\* business logic hands an error to the request layer
Raise ==
    /\ phase = "serve"
    /\ call.pc = "idle"
    /\ \E e \in Errors : call' = [NoCall EXCEPT !.pc = "raised", !.err = e]
    /\ UNCHANGED <<registry, phase, resp, pd, procs>>

\* config := m.Match(err), range visiting the keys in some order
CallMatch ==
    /\ call.pc = "raised"
    /\ \E order \in Orders(DOMAIN registry) :
           call' = [call EXCEPT !.pc = "matched",
                                !.config = Match(registry, call.err, order)]
    /\ UNCHANGED <<registry, phase, resp, pd, procs>>

\* resp := Resolve(err, m, tag)
CallResolve ==
    /\ call.pc = "raised"
    /\ \E tag \in Tags, order \in Orders(DOMAIN registry) :
           LET r == Resolve(call.err, registry, tag, order)
           IN  call' = [call EXCEPT !.pc = "resolved",
                                    !.tag = tag,
                                    !.config = [Type |-> r.Type, Title |-> r.Title,
                                                Status |-> r.Status],
                                    !.detail = r.Detail]
    /\ UNCHANGED <<registry, phase, resp, pd, procs>>

\* the request is answered
Return ==
    /\ call.pc \in {"matched", "resolved"}
    /\ call' = NoCall
    /\ UNCHANGED <<registry, phase, resp, pd, procs>>

Next ==
    \/ \E s \in Named, a \in ConfigArgs : Register(s, a)
    \/ Serve
    \/ Raise
    \/ CallMatch
    \/ CallResolve
    \/ Return

Spec == Init /\ [][Next]_vars

----------------------------------------------------------------------------
(* Claims about Match, Resolve and New, checked under Spec                 *)

\* the registered sentinels in err's chain, for Map m
RegisteredIn(m, err) == ChainIds(err) \cap DOMAIN m

\* the same for the shared Map
Registered(err) == RegisteredIn(registry, err)

\* the positions of the Localizable errors in a chain
LocalizablePositions(err) == {i \in 1..Len(err) : err[i].localizable}

Min(S) == CHOOSE x \in S : \A y \in S : x <= y

\* C1: when the error is, or wraps at any depth, exactly one registered
\* sentinel s, Match returns the Config registered for s, field by field.
C1_MatchReturnsRegistered ==
    (call.pc = "matched" /\ Cardinality(Registered(call.err)) = 1) =>
        \A s \in Registered(call.err) :
            /\ call.config.Type = registry[s].Type
            /\ call.config.Title = registry[s].Title
            /\ call.config.Status = registry[s].Status

\* the sentinel sits under two wrapping layers and its Config is returned
C1_Witness ==
    /\ call.pc = "matched"
    /\ Len(call.err) = 3
    /\ call.err[1].id = Anon /\ call.err[2].id = Anon
    /\ call.err[3].id = ErrUnauthorized
    /\ DOMAIN registry = {ErrNotFound, ErrUnauthorized}
    /\ registry[ErrUnauthorized].Status = StatusUnauthorized
    /\ call.config = registry[ErrUnauthorized]
    /\ call.config # registry[ErrNotFound]

\* C2: when no registered sentinel is in the error's chain (the Map may be
\* empty, the chain may hold another instance with a sentinel's text),
\* Match returns about:blank / Internal Server Error / 500.
C2_UnmatchedReturnsDefault ==
    (call.pc = "matched" /\ Registered(call.err) = {}) =>
        call.config = [Type |-> AboutBlank,
                       Title |-> "Internal Server Error",
                       Status |-> 500]

\* ErrNotFound is registered, the error wraps ErrMissing (same text), default returned
C2_Witness ==
    /\ call.pc = "matched"
    /\ ErrNotFound \in DOMAIN registry
    /\ ErrMissing \notin DOMAIN registry
    /\ Text(ErrMissing) = Text(ErrNotFound)
    /\ Len(call.err) = 2
    /\ call.err[2].id = ErrMissing
    /\ call.config.Status = 500

\* C6: Resolve's detail is what the outermost Localizable of the chain
\* returns for the requested locale, wherever it sits in the chain, and ""
\* when the chain holds no Localizable.
C6_DetailFromFirstLocalizable ==
    call.pc = "resolved" =>
        LET L == LocalizablePositions(call.err)
        IN  IF L = {} THEN call.detail = ""
            ELSE call.detail = Localize(call.err[Min(L)].messages, call.tag)

\* a wrapper, then a Localizable, then a second Localizable wrapped by it; the
\* sentinel is the outermost error: the first Localizable's message is used
C6_Witness ==
    /\ call.pc = "resolved"
    /\ Len(call.err) = 3
    /\ call.err[1] = Plain(ErrNotFound)
    /\ call.err[2] = LocalizableError(MessagesLogin)
    /\ call.err[3] = LocalizableError(MessagesNotFound)
    /\ ErrNotFound \in DOMAIN registry
    /\ call.tag = "ja"
    /\ call.detail = "Please log in"

\* C7: the Response of Resolve carries the type, title and status that
\* Match gives for the same error and Map, with or without localization; an
\* unmatched error without Localizable gives the default and an empty detail.
C7_ResolveCopiesMatch ==
    call.pc = "resolved" =>
        /\ call.config \in {Match(registry, call.err, o) : o \in Orders(DOMAIN registry)}
        /\ (Registered(call.err) = {} /\ LocalizablePositions(call.err) = {}) =>
               /\ call.config = [Type |-> AboutBlank,
                                 Title |-> "Internal Server Error",
                                 Status |-> 500]
               /\ call.detail = ""

\* a localized, matched error: the Response carries the registered Config
C7_Witness ==
    /\ call.pc = "resolved"
    /\ Len(call.err) = 2
    /\ call.err[1] = LocalizableError(MessagesNotFound)
    /\ call.err[2] = Plain(ErrNotFound)
    /\ ErrNotFound \in DOMAIN registry
    /\ call.config = registry[ErrNotFound]
    /\ call.config.Title = "Not Found"
    /\ call.detail = "Resource not found"

ValidStatus(status) == status \in 100..599

ValidConfig(c) == ValidStatus(c.Status) /\ c.Type # <<>>

DefaultIsConstant ==
    defaultConfig = [Type |-> AboutBlank,
                     Title |-> "Internal Server Error",
                     Status |-> 500]

\* C8 as stated: every Config made by New, stored in the Map or returned by
\* Match has a valid HTTP status and a non-empty type, and the default is
\* about:blank / Internal Server Error / 500.
C8_Original ==
    /\ \A s \in DOMAIN registry : ValidConfig(registry[s])
    /\ call.pc = "matched" => ValidConfig(call.config)
    /\ DefaultIsConstant

\* C8 as amended: New stores its three arguments unchanged and unvalidated,
\* so a Config is valid exactly when the arguments given to New were; every
\* entry of the Map is such a Config; Match on a Map of valid Configs
\* returns a valid Config; the default is constant.
C8_NewStoresArguments ==
    /\ \A a \in ConfigArgs :
           /\ New(a[1], a[2], a[3]).Type = a[1]
           /\ New(a[1], a[2], a[3]).Title = a[2]
           /\ New(a[1], a[2], a[3]).Status = a[3]
           /\ ValidConfig(New(a[1], a[2], a[3])) <=> (ValidStatus(a[3]) /\ a[1] # <<>>)
    /\ \A s \in DOMAIN registry :
           \E a \in ConfigArgs :
               registry[s] = [Type |-> a[1], Title |-> a[2], Status |-> a[3]]
    /\ (call.pc = "matched" /\ \A s \in DOMAIN registry : ValidConfig(registry[s]))
           => ValidConfig(call.config)
    /\ DefaultIsConstant

\* a Map of two valid Configs, and Match has returned one of them
C8_Witness ==
    /\ call.pc = "matched"
    /\ Cardinality(DOMAIN registry) = 2
    /\ \A s \in DOMAIN registry : ValidConfig(registry[s])
    /\ \E s \in DOMAIN registry : call.config = registry[s]
    /\ ValidConfig(call.config)

----------------------------------------------------------------------------
(* Response.ProblemDetail on generated inputs: SpecPD                      *)

TypeHeads ==
    {<<>>, SchemeHTTP, SchemeHTTPS, SchemeAbout,
     <<"h","t","t","p",":","/">>,
     <<"a","b","o","u","t">>,
     <<"H","T","T","P",":","/","/">>,
     <<"x","h","t","t","p",":","/","/">>}

Tails == StringsUpTo({"a", "/"}, MaxLen)

TypeInputs == {h \o t : h \in TypeHeads, t \in Tails}

Responses ==
    [Type : TypeInputs, Title : {"Not Found"}, Status : {StatusNotFound},
     Detail : {"", "Invalid credentials"}]

BaseInputs == {h \o t : h \in {<<>>, SchemeHTTPS}, t \in Tails}

\* the variadic argument: absent, one base URI, or a base URI and an ignored extra
BaseArgs ==
    {<<>>} \cup {<<b>> : b \in BaseInputs}
           \cup {<<b, <<"x">>>> : b \in {<<>>, <<"a">>}}

Instances == {"", "/api/v1/users/123"}

InitPD ==
    /\ registry = <<>>
    /\ phase = "serve"
    /\ call = NoCall
    /\ resp \in Responses
    /\ pd = NoProblemDetail
    /\ procs = <<>>

\* the caller builds another Response
NewResponse(r) ==
    /\ resp' = r
    /\ pd' = NoProblemDetail
    /\ UNCHANGED <<registry, phase, call, procs>>

\* pd := resp.ProblemDetail(instance, baseURI...)
CallProblemDetail(instance, baseURI) ==
    /\ pd' = [called |-> TRUE, instance |-> instance, baseURI |-> baseURI,
              out |-> ProblemDetail(resp, instance, baseURI)]
    /\ UNCHANGED <<registry, phase, call, resp, procs>>

NextPD ==
    \/ \E r \in Responses : NewResponse(r)
    \/ \E instance \in Instances, baseURI \in BaseArgs :
           CallProblemDetail(instance, baseURI)

SpecPD == InitPD /\ [][NextPD]_vars

\* s starts with p, read off the characters of s
StartsWith(s, p) == \E k \in 0..Len(s) : [i \in 1..k |-> s[i]] = p

\* absolute as the claims define it
StatedAbsolute(type) ==
    \/ StartsWith(type, <<"h","t","t","p",":","/","/">>)
    \/ StartsWith(type, <<"h","t","t","p","s",":","/","/">>)
    \/ StartsWith(type, <<"a","b","o","u","t",":">>)

\* a base URI was passed and it is not the empty string
BaseGiven(baseURI) == baseURI # <<>> /\ baseURI[1] # <<>>

\* C3: type, title and status are always emitted; detail is a key exactly
\* when Response.Detail is non-empty and instance exactly when the instance
\* argument is non-empty; no other key exists.
C3_KeysOfProblemDetail ==
    pd.called =>
        /\ {"type", "title", "status"} \subseteq DOMAIN pd.out
        /\ DOMAIN pd.out \subseteq {"type", "title", "status", "detail", "instance"}
        /\ "detail" \in DOMAIN pd.out <=> resp.Detail # ""
        /\ "instance" \in DOMAIN pd.out <=> pd.instance # ""
        /\ (resp.Detail = "" /\ pd.instance = "")
               => DOMAIN pd.out = {"type", "title", "status"}

\* empty detail and empty instance, a base URI given: exactly three keys
C3_Witness ==
    /\ pd.called
    /\ resp.Detail = "" /\ pd.instance = ""
    /\ BaseGiven(pd.baseURI)
    /\ DOMAIN pd.out = {"type", "title", "status"}
    /\ pd.out.status = StatusNotFound

\* C4: an absolute type (http://, https:// or about: prefix) is emitted
\* unchanged whatever base URI is passed; any type is emitted unchanged when
\* no base URI, or the empty one, is passed.
C4_AbsoluteTypeUnchanged ==
    (pd.called /\ (StatedAbsolute(resp.Type) \/ ~BaseGiven(pd.baseURI)))
        => pd.out.type = resp.Type

\* an about: type and a non-empty base URI: the type passes through
C4_Witness ==
    /\ pd.called
    /\ BaseGiven(pd.baseURI)
    /\ StartsWith(resp.Type, SchemeAbout)
    /\ Len(resp.Type) > Len(SchemeAbout)
    /\ pd.out.type = resp.Type

----------------------------------------------------------------------------
(* Several callers on one shared Map and one shared Response: SpecConc     *)
(*                                                                         *)
(* Each call advances one statement at a time: one iteration of the range  *)
(* loop of Match, the errors.As/Localize step of Resolve, the two halves   *)
(* of ProblemDetail.  range visits the keys in an order the runtime        *)
(* chooses, so an iteration picks any key not yet visited.                 *)
(***************************************************************************)

Callers == {"c1", "c2"}

\* the Map of TestResolve, and one in which ErrMissing is registered as well
ErrMap ==
    [k \in {ErrNotFound, ErrUnauthorized} |->
        IF k = ErrNotFound
        THEN New(TypeNotFound, "Not Found", StatusNotFound)
        ELSE New(TypeUnauthorized, "Unauthorized", StatusUnauthorized)]

ErrMapWithMissing ==
    [k \in Named |->
        IF k = ErrMissing THEN New(TypeUnauthorized, "Missing", StatusNotFound)
        ELSE ErrMap[k]]

ConcRegistries == {ErrMap, ErrMapWithMissing}

\* the errors the concurrent callers handle
ConcErrors ==
    {<<Plain(ErrNotFound)>>,
     <<Plain(ErrMissing)>>,
     <<Plain(Anon), Plain(ErrUnauthorized)>>,
     <<Plain(ErrNotFound), Plain(ErrUnauthorized)>>,
     <<Plain(Anon), Plain(ErrUnauthorized), Plain(ErrNotFound)>>,
     <<LocalizableError(MessagesNotFound), Plain(ErrNotFound)>>,
     <<Plain(Anon), LocalizableError(MessagesLogin), Plain(ErrUnauthorized)>>,
     <<Plain(Anon)>>}

ConcTags == {"en", "ja"}

ConcResponses ==
    {[Type |-> TypeUnauthorized, Title |-> "Unauthorized",
      Status |-> StatusUnauthorized, Detail |-> "Invalid credentials"],
     [Type |-> AboutBlank, Title |-> "Internal Server Error",
      Status |-> StatusInternalServerError, Detail |-> ""]}

ConcBaseArgs == {<<>>, <<<<"a">>>>, <<<<"a", "/">>>>}

Idle ==
    [pc |-> "idle", op |-> "none", err |-> <<>>, tag |-> English, todo |-> {},
     config |-> defaultConfig, detail |-> "",
     instance |-> "", baseURI |-> <<>>, typeURI |-> <<>>, out |-> [type |-> <<>>]]

InitConc ==
    /\ registry \in ConcRegistries
    /\ phase = "serve"
    /\ call = NoCall
    /\ resp \in ConcResponses
    /\ pd = NoProblemDetail
    /\ procs = [c \in Callers |-> Idle]

\* where a call continues once Match has returned
AfterMatch(op) == IF op = "Match" THEN "done" ELSE "localize"

\* c calls m.Match(e): the range loop starts
BeginMatch(c, e) ==
    /\ procs[c].pc = "idle"
    /\ procs' = [procs EXCEPT ![c] =
                    [Idle EXCEPT !.pc = "match", !.op = "Match", !.err = e,
                                 !.todo = DOMAIN registry]]
    /\ UNCHANGED <<registry, phase, call, resp, pd>>

\* c calls Resolve(e, m, tag), which first calls m.Match(e)
BeginResolve(c, e, tag) ==
    /\ procs[c].pc = "idle"
    /\ procs' = [procs EXCEPT ![c] =
                    [Idle EXCEPT !.pc = "match", !.op = "Resolve", !.err = e,
                                 !.tag = tag, !.todo = DOMAIN registry]]
    /\ UNCHANGED <<registry, phase, call, resp, pd>>

\* a bug: the first key visited wins, errors.Is is not consulted
MatchVisit_NoTest(c, target) ==
    /\ procs[c].pc = "match"
    /\ target \in procs[c].todo
    /\ procs' = [procs EXCEPT ![c].pc = AfterMatch(procs[c].op),
                              ![c].config = registry[target]]
    /\ UNCHANGED <<registry, phase, call, resp, pd>>

\* one iteration of the range loop: return the Config when errors.Is holds
MatchVisit(c, target) ==
    /\ procs[c].pc = "match"
    /\ target \in procs[c].todo
    /\ IF ErrorsIs(procs[c].err, target)
       THEN procs' = [procs EXCEPT ![c].pc = AfterMatch(procs[c].op),
                                   ![c].config = registry[target]]
       ELSE procs' = [procs EXCEPT ![c].todo = procs[c].todo \ {target}]
    /\ UNCHANGED <<registry, phase, call, resp, pd>>

\* the loop is over without a match: return defaultConfig
MatchExhausted(c) ==
    /\ procs[c].pc = "match"
    /\ procs[c].todo = {}
    /\ procs' = [procs EXCEPT ![c].pc = AfterMatch(procs[c].op),
                              ![c].config = defaultConfig]
    /\ UNCHANGED <<registry, phase, call, resp, pd>>

\* errors.As and Localize, then the Response is returned
LocalizeStep(c) ==
    /\ procs[c].pc = "localize"
    /\ LET k == ErrorsAs(procs[c].err)
       IN  procs' = [procs EXCEPT
                        ![c].pc = "done",
                        ![c].detail = IF k # 0
                                      THEN Localize(procs[c].err[k].messages, procs[c].tag)
                                      ELSE ""]
    /\ UNCHANGED <<registry, phase, call, resp, pd>>

\* a bug: the resolved type is stored in the receiver instead of a local
BeginProblemDetail_WritesReceiver(c, instance, baseURI) ==
    /\ procs[c].pc = "idle"
    /\ procs' = [procs EXCEPT ![c] =
                    [Idle EXCEPT !.pc = "format", !.op = "ProblemDetail",
                                 !.instance = instance, !.baseURI = baseURI,
                                 !.typeURI = TypeURI(resp, baseURI)]]
    /\ resp' = [resp EXCEPT !.Type = TypeURI(resp, baseURI)]
    /\ UNCHANGED <<registry, phase, call, pd>>

\* c calls resp.ProblemDetail(instance, baseURI...): typeURI is computed
BeginProblemDetail(c, instance, baseURI) ==
    /\ procs[c].pc = "idle"
    /\ procs' = [procs EXCEPT ![c] =
                    [Idle EXCEPT !.pc = "format", !.op = "ProblemDetail",
                                 !.instance = instance, !.baseURI = baseURI,
                                 !.typeURI = TypeURI(resp, baseURI)]]
    /\ UNCHANGED <<registry, phase, call, resp, pd>>

\* the map is built and returned
BuildProblemDetail(c) ==
    /\ procs[c].pc = "format"
    /\ procs' = [procs EXCEPT
                    ![c].pc = "done",
                    ![c].out = ProblemDetailMap(procs[c].typeURI, resp, procs[c].instance)]
    /\ UNCHANGED <<registry, phase, call, resp, pd>>

\* the caller takes the result and is free for the next call
Finish(c) ==
    /\ procs[c].pc = "done"
    /\ procs' = [procs EXCEPT ![c] = Idle]
    /\ UNCHANGED <<registry, phase, call, resp, pd>>

NextConc ==
    \E c \in Callers :
        \/ \E e \in ConcErrors : BeginMatch(c, e)
        \/ \E e \in ConcErrors, tag \in ConcTags : BeginResolve(c, e, tag)
        \/ \E target \in DOMAIN registry : MatchVisit(c, target)
        \/ MatchExhausted(c)
        \/ LocalizeStep(c)
        \/ \E instance \in Instances, baseURI \in ConcBaseArgs :
               BeginProblemDetail(c, instance, baseURI)
        \/ BuildProblemDetail(c)
        \/ Finish(c)

SpecConc == InitConc /\ [][NextConc]_vars

----------------------------------------------------------------------------
(* Claims about concurrent calls, checked under SpecConc                   *)

\* the results the finished call p may return when it runs alone on Map m
\* and Response r
ResultAsAlone(p, m, r) ==
    CASE p.op = "Match" ->
            p.config \in {Match(m, p.err, o) : o \in Orders(DOMAIN m)}
      [] p.op = "Resolve" ->
            [Type |-> p.config.Type, Title |-> p.config.Title,
             Status |-> p.config.Status, Detail |-> p.detail]
                \in {Resolve(p.err, m, p.tag, o) : o \in Orders(DOMAIN m)}
      [] p.op = "ProblemDetail" ->
            p.out = ProblemDetail(r, p.instance, p.baseURI)
      [] OTHER -> FALSE

\* C9: whatever the interleaving of Match, Resolve and ProblemDetail calls
\* of several callers, no step changes the Map (and so no Config in it) or
\* the Response, and every finished call holds a result the same call
\* returns when it runs alone.
C9_ConcurrentCallsReadOnly ==
    [][/\ registry' = registry
       /\ resp' = resp
       /\ \A c \in Callers :
              procs'[c].pc = "done" => ResultAsAlone(procs'[c], registry, resp)]_vars

\* a ProblemDetail call that resolved the type against a base URI has finished
\* while the other caller is in the middle of Resolve on the same Map
C9_Witness ==
    /\ procs["c1"].pc = "done" /\ procs["c1"].op = "ProblemDetail"
    /\ procs["c1"].baseURI = <<<<"a">>>>
    /\ procs["c1"].out.type = <<"a", "/">> \o TypeUnauthorized
    /\ resp.Type = TypeUnauthorized
    /\ procs["c2"].pc = "localize" /\ procs["c2"].op = "Resolve"
    /\ procs["c2"].config = registry[ErrUnauthorized]

\* C10: when two or more registered sentinels are in the error's chain,
\* Match returns, under every iteration order, the Config of an entry whose
\* sentinel is in the chain: not the default, not the Config of another entry.
C10_AmbiguousMatchStaysInChain ==
    \A c \in Callers :
        (/\ procs[c].pc = "done" /\ procs[c].op = "Match"
         /\ Cardinality(RegisteredIn(registry, procs[c].err)) >= 2) =>
            /\ \E s \in RegisteredIn(registry, procs[c].err) :
                   procs[c].config = registry[s]
            /\ procs[c].config # defaultConfig
            /\ \A s \in DOMAIN registry \ ChainIds(procs[c].err) :
                   procs[c].config # registry[s]

\* two calls with the same error on the same Map and different winners
C10_Witness ==
    /\ procs["c1"].pc = "done" /\ procs["c1"].op = "Match"
    /\ procs["c2"].pc = "done" /\ procs["c2"].op = "Match"
    /\ procs["c1"].err = procs["c2"].err
    /\ Cardinality(RegisteredIn(registry, procs["c1"].err)) = 2
    /\ ErrMissing \in DOMAIN registry
    /\ procs["c1"].config = registry[ErrNotFound]
    /\ procs["c2"].config = registry[ErrUnauthorized]

====
